---- MODULE Spec2Model ----
(***************************************************************************)
(* branchlet: the non-interactive `create` command (runCreate), the update *)
(* checker (checkForUpdate / isNewer), the non-TTY dispatch of the CLI and *)
(* the deletion of a worktree (deleteWorktree), the configuration schema   *)
(* (WorktreeConfigSchema) and the scripts that keep schema.json in step.   *)
(*                                                                         *)
(* Strings are sequences of one-character strings, so that prefix          *)
(* stripping, validation and emptiness are computed, not assumed.          *)
(***************************************************************************)
EXTENDS Integers, Sequences, FiniteSets, TLC

VARIABLES
    \* ---- runCreate (cli/commands/create) ----
    args,          \* CliArgs of the run: [name, source, branch], each a string or None
    config,        \* the config the run read: [showRemoteBranches, postCreateCmd]
    pc,            \* where the run is
    error,         \* message of the Error the run threw, or NoError
    calls,         \* the service calls of the run, in order
    request,       \* the CreateRequest handed to worktreeService.createWorktree
    allBranches,   \* the run's snapshot of gitService.listBranches
    cmdIdx,        \* index of the post-create command being run
    cmdResults,    \* the post-create executor's results so far: [command, ok]
    stdout,        \* what the run printed with console.log
    stderr,        \* the warnings the run wrote
    retryOf,       \* "fresh", or the outcome of the run this run repeats
    branches,      \* the repository's branches (Branch records)
    worktrees,     \* the repository's worktrees (paths)
    \* ---- checkForUpdate (utils/update-checker) ----
    cache,         \* the UPDATE_CHECK_FILE
    now,           \* Date.now()
    last,          \* what the last checkForUpdate call did and returned
    lastWrite,     \* history: time and version of the latest cache write
    \* ---- CLI entry, stdin not a TTY ----
    cli,           \* the last invocation and what the process did
    \* ---- worktreeService.deleteWorktree ----
    gitWorktrees,  \* the Worktree records Git lists: [path, branch]
    del,           \* the deleteWorktree call under way, or the last one
    \* ---- WorktreeConfigSchema and the schema scripts ----
    parsed,        \* the last WorktreeConfigSchema.parse call: input and output
    jsonSchema,    \* what z.toJSONSchema(WorktreeConfigSchema) returns
    schemaFile,    \* the committed schema.json
    script         \* the last schema script run and what it did

createVars == <<args, config, pc, error, calls, request, allBranches, cmdIdx,
                cmdResults, stdout, stderr, retryOf, branches, worktrees>>
updateVars == <<cache, now, last, lastWrite>>
cliVars    == <<cli>>
deleteVars == <<gitWorktrees, del>>
configVars == <<parsed>>
schemaVars == <<jsonSchema, schemaFile, script>>
vars       == <<createVars, updateVars, cliVars, deleteVars, configVars, schemaVars>>

----------------------------------------------------------------------------
(* Bounds *)

\* longest directory name tried for --name
MaxNameLen == 1
\* most worktrees the repository is let to hold
MaxWorktrees == 1

----------------------------------------------------------------------------
(* Strings *)

\* all strings over `chars` of length at most n
Strs(chars, n) == UNION { [1..k -> chars] : k \in 0..n }

\* an absent (undefined) optional string
None == <<"<undefined>">>

\* JavaScript truthiness of an optional string: undefined and "" are falsy
Falsy(s) == s = None \/ s = <<>>

Has(s, ch) == \E i \in 1..Len(s) : s[i] = ch

NoError == "none"

----------------------------------------------------------------------------
(* path-utils: validators and path template *)

\* rejects empty names, names with a path separator, names starting with '.'
validateDirectoryName(name) ==
    IF name = <<>> THEN "Directory name cannot be empty"
    ELSE IF Has(name, "/") THEN "Directory name contains invalid characters"
    ELSE IF name[1] = "." THEN "Directory name cannot start with a dot"
    ELSE NoError

\* rejects embedded whitespace and the characters Git disallows in ref names
validateBranchName(name) ==
    IF Has(name, " ") THEN "Branch name cannot contain spaces"
    ELSE IF Has(name, "~") THEN "Branch name contains invalid characters"
    ELSE NoError

\* the default template "$BASE_PATH.worktree": <repo>.worktree/<name>
getWorktreePath(name) == <<"$BASE_PATH.worktree", "/">> \o name

----------------------------------------------------------------------------
(* Git service *)

Local(n)  == [name |-> n, isRemote |-> FALSE]
Remote(n) == [name |-> n, isRemote |-> TRUE]

\* branch names: main, feat/x, origin/feat/x
MainBranch == <<"m">>
FeatX == <<"f", "/", "x">>
OrigFeat == <<"o", "/", "f", "/", "x">>

\* the branches that may exist besides those worktree creation makes;
\* a local branch may carry the same name as a remote-tracking one
BranchPool == { Local(MainBranch), Local(FeatX), Local(OrigFeat), Remote(OrigFeat) }

RECURSIVE SeqOf(_)
SeqOf(S) == IF S = {} THEN <<>>
            ELSE LET x == CHOOSE y \in S : TRUE IN <<x>> \o SeqOf(S \ {x})

\* local branches first, then the remote ones when asked for
listBranches(includeRemote) ==
    SeqOf({ b \in branches : ~b.isRemote })
      \o (IF includeRemote THEN SeqOf({ b \in branches : b.isRemote }) ELSE <<>>)

----------------------------------------------------------------------------
(* runCreate *)

\* a find that compares name and kind, so a remote source is never matched
FindBranchLocalOnly(list, source) ==
    IF \E i \in 1..Len(list) : list[i].name = source /\ ~list[i].isRemote
    THEN CHOOSE i \in 1..Len(list) : list[i].name = source /\ ~list[i].isRemote
    ELSE 0

\* Array.prototype.find on b.name === source: index of the first match, 0 if none
FindBranch(list, source) ==
    IF \E i \in 1..Len(list) : list[i].name = source
    THEN CHOOSE i \in 1..Len(list) :
            /\ list[i].name = source
            /\ \A j \in 1..(i - 1) : list[j].name # source
    ELSE 0

\* a greedy pattern (/^.+\//): drops everything up to the last '/'
StripRemoteAlt(s) ==
    IF Has(s, "/")
    THEN LET i == CHOOSE k \in 1..Len(s) :
                     s[k] = "/" /\ \A j \in (k + 1)..Len(s) : s[j] # "/"
         IN SubSeq(s, i + 1, Len(s))
    ELSE s

\* source.replace(/^[^/]+\//, ""): drops a non-empty slash-free prefix and the
\* first '/', when the string starts with one
StripRemote(s) ==
    IF \E k \in 2..Len(s) : s[k] = "/" /\ \A j \in 1..(k - 1) : s[j] # "/"
    THEN LET i == CHOOSE k \in 2..Len(s) :
                     s[k] = "/" /\ \A j \in 1..(k - 1) : s[j] # "/"
         IN SubSeq(s, i + 1, Len(s))
    ELSE s

\* let defaultBranch = args.source; if (!args.branch && isRemote) strip the prefix
DefaultBranch(a, info) ==
    IF Falsy(a.branch) /\ info.isRemote THEN StripRemote(a.source) ELSE a.source

\* const newBranch = args.branch ?? defaultBranch
NewBranch(a, info) ==
    IF a.branch # None THEN a.branch ELSE DefaultBranch(a, info)

\* a runCreate that never validates the branch name
BranchRejectedSkipped(a) == FALSE

\* if (args.branch) { const branchError = validateBranchName(args.branch); ... }
BranchRejected(a) == ~Falsy(a.branch) /\ validateBranchName(a.branch) # NoError

NoRequest == [name |-> None, sourceBranch |-> None, newBranch |-> None,
              basePath |-> None, isRemoteSource |-> FALSE]

DirNames   == Strs({"a", ".", "/"}, MaxNameLen)
SourceArgs == { b.name : b \in BranchPool } \cup { <<>>, None }
BranchArgs == { None, <<>>, <<"b">>, <<"b", " ", "b">> }
PostCreateCmds == { <<>>,
                    <<"npm install", "this-command-does-not-exist-xyz">>,
                    <<"this-command-does-not-exist-xyz", "npm install">> }

ArgsSet   == [name : DirNames \cup {None}, source : SourceArgs, branch : BranchArgs]
ConfigSet == [showRemoteBranches : BOOLEAN, postCreateCmd : PostCreateCmds]

\* the update checker and the CLI dispatch take no part in a runCreate step
OutsideCreate == UNCHANGED <<updateVars, cliVars, deleteVars, configVars, schemaVars>>

Throw(msg) ==
    /\ error' = msg
    /\ pc' = "done"

\* entry of runCreate up to its first await: the argument checks
Begin(a, c, r) ==
    /\ args' = a
    /\ config' = c
    /\ retryOf' = r
    /\ calls' = <<>>
    /\ stdout' = <<>>
    /\ stderr' = <<>>
    /\ request' = NoRequest
    /\ allBranches' = <<>>
    /\ cmdIdx' = 0
    /\ cmdResults' = <<>>
    /\ IF Falsy(a.name) THEN Throw("Missing required argument: --name (-n)")
       ELSE IF Falsy(a.source) THEN Throw("Missing required argument: --source (-s)")
       ELSE IF validateDirectoryName(a.name) # NoError THEN Throw("Invalid directory name")
       ELSE /\ error' = NoError
            /\ pc' = "getRepositoryInfo"
    /\ UNCHANGED <<branches, worktrees>>
    /\ OutsideCreate

Invoke ==
    /\ pc = "idle"
    /\ \E a \in ArgsSet, c \in ConfigSet : Begin(a, c, "fresh")

\* the same call once more, after the previous one ended
Retry ==
    /\ pc = "done"
    /\ Begin(args, config, error)

\* await gitService.getRepositoryInfo()
GetRepositoryInfo ==
    /\ pc = "getRepositoryInfo"
    /\ calls' = Append(calls, "getRepositoryInfo")
    /\ \E ok \in BOOLEAN :
          IF ok THEN pc' = "listBranches" /\ error' = error
          ELSE Throw("Not a git repository")
    /\ UNCHANGED <<args, config, request, allBranches, cmdIdx, cmdResults,
                   stdout, stderr, retryOf, branches, worktrees>>
    /\ OutsideCreate

\* await gitService.listBranches(...), then everything up to the call of
\* worktreeService.createWorktree
ResolveAndCall ==
    /\ pc = "listBranches"
    /\ LET list == listBranches(config.showRemoteBranches)
           i    == FindBranch(list, args.source)
       IN /\ allBranches' = list
          /\ IF i = 0
             THEN /\ Throw("Source branch does not exist")
                  /\ calls' = Append(calls, "listBranches")
                  /\ request' = request
             ELSE IF BranchRejected(args)
             THEN /\ Throw("Invalid branch name")
                  /\ calls' = Append(calls, "listBranches")
                  /\ request' = request
             ELSE /\ request' = [name |-> args.name,
                                 sourceBranch |-> args.source,
                                 newBranch |-> NewBranch(args, list[i]),
                                 basePath |-> <<"$BASE_PATH.worktree">>,
                                 isRemoteSource |-> list[i].isRemote]
                  /\ calls' = calls \o <<"listBranches", "createWorktree">>
                  /\ pc' = "gitCreating"
                  /\ error' = error
    /\ UNCHANGED <<args, config, cmdIdx, cmdResults, stdout, stderr, retryOf,
                   branches, worktrees>>
    /\ OutsideCreate

----------------------------------------------------------------------------
(* worktreeService.createWorktree: GitCreating, FileCopying, PostCreateRunning *)

\* git worktree add: fails when the path exists, and may fail otherwise
GitCreating ==
    /\ pc = "gitCreating"
    /\ LET path == getWorktreePath(request.name)
       IN \E ok \in BOOLEAN :
            IF ok /\ path \notin worktrees /\ Cardinality(worktrees) < MaxWorktrees
            THEN /\ worktrees' = worktrees \cup {path}
                 /\ branches' = branches \cup {Local(request.newBranch)}
                 /\ pc' = "fileCopying"
                 /\ error' = error
            ELSE /\ Throw("Git command failed")
                 /\ UNCHANGED <<branches, worktrees>>
    /\ UNCHANGED <<args, config, calls, request, allBranches, cmdIdx, cmdResults,
                   stdout, stderr, retryOf>>
    /\ OutsideCreate

\* copy failures are collected as a warning, creation goes on
FileCopying ==
    /\ pc = "fileCopying"
    /\ \E ok \in BOOLEAN :
          stderr' = IF ok THEN stderr ELSE Append(stderr, <<"copy", "">>)
    /\ cmdIdx' = 1
    /\ pc' = "postCreate"
    /\ UNCHANGED <<args, config, error, calls, request, allBranches, cmdResults,
                   stdout, retryOf, branches, worktrees>>
    /\ OutsideCreate

\* one configured command, in order; an unresolvable executable always fails
PostCreateRunning ==
    /\ pc = "postCreate"
    /\ cmdIdx <= Len(config.postCreateCmd)
    /\ LET cmd == config.postCreateCmd[cmdIdx]
       IN \E exit0 \in BOOLEAN :
            LET ok == exit0 /\ cmd # "this-command-does-not-exist-xyz"
            IN /\ cmdResults' = Append(cmdResults, [command |-> cmd, ok |-> ok])
               /\ stderr' = IF ok THEN stderr
                             ELSE Append(stderr, <<"Warning: post-create command failed:", cmd>>)
    /\ cmdIdx' = cmdIdx + 1
    /\ UNCHANGED <<args, config, pc, error, calls, request, allBranches, stdout,
                   retryOf, branches, worktrees>>
    /\ OutsideCreate

\* console.log before the awaited createWorktree has settled
PrintPathEarly ==
    /\ pc = "gitCreating"
    /\ stdout = <<>>
    /\ stdout' = Append(stdout, getWorktreePath(args.name))
    /\ UNCHANGED <<args, config, pc, error, calls, request, allBranches, cmdIdx,
                   cmdResults, stderr, retryOf, branches, worktrees>>
    /\ OutsideCreate

\* a create that treats post-create warnings as failure
PrintPathUnlessWarned ==
    /\ pc = "postCreate"
    /\ cmdIdx > Len(config.postCreateCmd)
    /\ IF stderr = <<>>
       THEN stdout' = Append(stdout, getWorktreePath(args.name)) /\ error' = error
       ELSE stdout' = stdout /\ error' = "post-create command failed"
    /\ pc' = "done"
    /\ UNCHANGED <<args, config, calls, request, allBranches, cmdIdx,
                   cmdResults, stderr, retryOf, branches, worktrees>>
    /\ OutsideCreate

\* createWorktree resolved: console.log(worktreePath)
PrintPath ==
    /\ pc = "postCreate"
    /\ cmdIdx > Len(config.postCreateCmd)
    /\ stdout' = Append(stdout, getWorktreePath(args.name))
    /\ pc' = "done"
    /\ UNCHANGED <<args, config, error, calls, request, allBranches, cmdIdx,
                   cmdResults, stderr, retryOf, branches, worktrees>>
    /\ OutsideCreate

\* the process ends; nothing of the run is kept but the repository
Exit ==
    /\ pc = "done"
    /\ args' = [name |-> None, source |-> None, branch |-> None]
    /\ config' = [showRemoteBranches |-> TRUE, postCreateCmd |-> <<>>]
    /\ pc' = "idle"
    /\ error' = NoError
    /\ calls' = <<>>
    /\ request' = NoRequest
    /\ allBranches' = <<>>
    /\ cmdIdx' = 0
    /\ cmdResults' = <<>>
    /\ stdout' = <<>>
    /\ stderr' = <<>>
    /\ retryOf' = "fresh"
    /\ UNCHANGED <<branches, worktrees>>
    /\ OutsideCreate

\* a branch of the pool is created or fetched outside the tool
CreateBranchElsewhere ==
    /\ \E b \in BranchPool \ branches : branches' = branches \cup {b}
    /\ UNCHANGED <<args, config, pc, error, calls, request, allBranches, cmdIdx,
                   cmdResults, stdout, stderr, retryOf, worktrees>>
    /\ OutsideCreate

----------------------------------------------------------------------------
(* worktreeService.deleteWorktree: lookup, removeWorktree, deleteBranch *)

\* the main working tree and the paths of the linked worktrees
MainPath == <<"$BASE_PATH">>
LinkedPaths == { getWorktreePath(<<"a">>), getWorktreePath(<<"b">>) }
\* a path Git has no worktree for
UnknownPath == getWorktreePath(<<"z">>)

\* the branches a linked worktree may have checked out
LinkedBranches == { FeatX, <<"b">> }

Worktree(p, b) == [path |-> p, branch |-> b]
NoWorktree == Worktree(None, None)

\* the repositories a deletion may start from: the main working tree on
\* main, and linked worktrees on branches of their own
Repositories ==
    { ws \in SUBSET { Worktree(p, b) : p \in LinkedPaths, b \in LinkedBranches } :
        \A v, w \in ws : v # w => v.path # w.path /\ v.branch # w.branch }

\* gitService.listWorktrees()
listWorktrees == SeqOf(gitWorktrees)

\* worktrees.find(wt => wt.path === path)
FindWorktree(list, path) ==
    IF \E i \in 1..Len(list) : list[i].path = path
    THEN list[CHOOSE i \in 1..Len(list) : list[i].path = path]
    ELSE NoWorktree

NoDelete == [pc |-> "idle", path |-> None, force |-> FALSE,
             deleteBranchWithWorktree |-> FALSE, worktree |-> NoWorktree,
             calls |-> <<>>, removed |-> FALSE, branchDeletion |-> "none",
             warnings |-> <<>>, error |-> NoError]

\* deleteWorktree takes no part in runCreate, the update check or the CLI
OutsideDelete ==
    UNCHANGED <<args, config, pc, error, calls, request, allBranches, cmdIdx,
                cmdResults, stdout, stderr, retryOf, updateVars, cliVars,
                configVars, schemaVars>>

\* entry: the Worktree record is looked up by path; an unknown path is
\* rejected before anything is changed
DeleteWorktree ==
    /\ del.pc = "idle"
    /\ \E path \in LinkedPaths \cup {MainPath, UnknownPath},
          force \in BOOLEAN, deleteBranchWithWorktree \in BOOLEAN :
          LET found == FindWorktree(listWorktrees, path)
          IN del' = [NoDelete EXCEPT
                       !.path = path,
                       !.force = force,
                       !.deleteBranchWithWorktree = deleteBranchWithWorktree,
                       !.worktree = found,
                       !.calls = <<"listWorktrees">>,
                       !.pc = IF found = NoWorktree THEN "done" ELSE "removing",
                       !.error = IF found = NoWorktree THEN "Worktree not found"
                                 ELSE NoError]
    /\ UNCHANGED <<gitWorktrees, branches, worktrees>>
    /\ OutsideDelete

\* gitService.removeWorktree(path, force): Git refuses the main working
\* tree and may refuse any other (uncommitted changes without force, a lock)
RemoveWorktree ==
    /\ del.pc = "removing"
    /\ \E ok \in BOOLEAN :
         IF ok /\ del.path # MainPath
         THEN /\ gitWorktrees' = gitWorktrees \ {del.worktree}
              /\ worktrees' = worktrees \ {del.path}
              /\ del' = [del EXCEPT
                           !.calls = Append(@, "removeWorktree"),
                           !.removed = TRUE,
                           !.pc = IF del.deleteBranchWithWorktree
                                  THEN "deletingBranch" ELSE "done"]
         ELSE /\ del' = [del EXCEPT
                           !.calls = Append(@, "removeWorktree"),
                           !.error = "Git command failed",
                           !.pc = "done"]
              /\ UNCHANGED <<gitWorktrees, worktrees>>
    /\ UNCHANGED branches
    /\ OutsideDelete

\* a failed branch deletion ends the whole operation with an error
DeleteBranchEscalating ==
    /\ del.pc = "deletingBranch"
    /\ \E ok \in BOOLEAN :
         IF ok
         THEN /\ branches' = branches \ {Local(del.worktree.branch)}
              /\ del' = [del EXCEPT !.calls = Append(@, "deleteBranch"),
                                    !.branchDeletion = "deleted",
                                    !.pc = "done"]
         ELSE /\ del' = [del EXCEPT !.calls = Append(@, "deleteBranch"),
                                    !.branchDeletion = "failed",
                                    !.error = "Git command failed",
                                    !.pc = "done"]
              /\ UNCHANGED branches
    /\ UNCHANGED <<gitWorktrees, worktrees>>
    /\ OutsideDelete

\* gitService.deleteBranch(branch, force), after the removal: Git may refuse
\* (a branch that is not merged, without force); the refusal is a warning
DeleteBranch ==
    /\ del.pc = "deletingBranch"
    /\ \E ok \in BOOLEAN :
         IF ok
         THEN /\ branches' = branches \ {Local(del.worktree.branch)}
              /\ del' = [del EXCEPT !.calls = Append(@, "deleteBranch"),
                                    !.branchDeletion = "deleted",
                                    !.pc = "done"]
         ELSE /\ del' = [del EXCEPT !.calls = Append(@, "deleteBranch"),
                                    !.branchDeletion = "failed",
                                    !.warnings = Append(@, "Failed to delete branch"),
                                    !.pc = "done"]
              /\ UNCHANGED branches
    /\ UNCHANGED <<gitWorktrees, worktrees>>
    /\ OutsideDelete

\* the caller has its { warnings } or its error; the repository stays
DeleteReturn ==
    /\ del.pc = "done"
    /\ del' = NoDelete
    /\ UNCHANGED <<gitWorktrees, branches, worktrees>>
    /\ OutsideDelete

DeleteIdle ==
    /\ gitWorktrees = {}
    /\ del = NoDelete

----------------------------------------------------------------------------
(* update-checker: isNewer *)

\* a version string is the sequence of its dot-separated numeric components;
\* the empty string is <<>>; Undefined is a value that is no string
Undefined == <<-1>>

\* JavaScript truthiness of a string or undefined
FalsyVersion(v) == v = Undefined \/ v = <<>>

\* the loop bound of isNewer: for (let i = 0; i < 3; i++)
Components == 3

\* v.split(".").map(Number): "" splits into [""], and Number("") is 0
SplitNumbers(v) == IF v = <<>> THEN <<0>> ELSE v

\* parts[i] ?? 0, with i counted from 1
PartOrZero(parts, i) == IF i <= Len(parts) THEN parts[i] ELSE 0

\* a comparison that returns at the first component, equal or not
IsNewerFirstOnly(latest, current) ==
    PartOrZero(SplitNumbers(latest), 1) > PartOrZero(SplitNumbers(current), 1)

RECURSIVE IsNewerFrom(_, _, _)
IsNewerFrom(latestParts, currentParts, i) ==
    IF i > Components THEN FALSE
    ELSE LET l == PartOrZero(latestParts, i)
             c == PartOrZero(currentParts, i)
         IN IF l > c THEN TRUE
            ELSE IF l < c THEN FALSE
            ELSE IsNewerFrom(latestParts, currentParts, i + 1)

isNewer(latest, current) ==
    IsNewerFrom(SplitNumbers(latest), SplitNumbers(current), 1)

----------------------------------------------------------------------------
(* update-checker: checkForUpdate *)

CHECK_INTERVAL_MS == 24 * 60 * 60 * 1000

\* the clock advances in steps of half the check interval
TickMs == CHECK_INTERVAL_MS \div 2

\* largest component of a version
MaxComp == 1
\* how many steps the clock makes
MaxTicks == 3

Times == { k * TickMs : k \in 0..MaxTicks }

\* versions of one to four components
Versions == UNION { [1..k -> 0..MaxComp] : k \in 1..(Components + 1) }

\* the versions X.0.0
MajorVersions == { v \in Versions : Len(v) = 3 /\ v[2] = 0 /\ v[3] = 0 }

Null == [current |-> Undefined, latest |-> Undefined]

NoCache      == [kind |-> "missing", lastCheck |-> 0, latestVersion |-> Undefined]
CorruptCache == [kind |-> "corrupt", lastCheck |-> 0, latestVersion |-> Undefined]
ValidCache(t, v) == [kind |-> "valid", lastCheck |-> t, latestVersion |-> v]

\* what the UPDATE_CHECK_FILE may hold: nothing, no JSON, or a CacheData whose
\* version may be missing or empty
Caches(vs) ==
    { NoCache, CorruptCache }
      \cup { ValidCache(t, v) : t \in Times, v \in vs \cup { <<>>, Undefined } }

\* how fetch and response.json() may end: a body with a version (possibly
\* empty or missing), a network error, an abort by the timeout, a body that
\* is no JSON
Fetches(vs) ==
    { [kind |-> "ok", version |-> v] : v \in vs \cup { <<>>, Undefined } }
      \cup { [kind |-> k, version |-> Undefined] :
               k \in {"networkError", "abort", "malformed"} }

NoFetch == [kind |-> "none", version |-> Undefined]

\* a cache that stays fresh through the instant the interval ends
CachedVersionInclusive(forceCheck) ==
    IF ~forceCheck /\ cache.kind = "valid" /\ now - cache.lastCheck <= CHECK_INTERVAL_MS
    THEN cache.latestVersion
    ELSE Undefined

\* lines 38-49: the cached version, when the cache is read and is fresh
CachedVersionIgnoringForce(forceCheck) ==
    IF cache.kind = "valid" /\ now - cache.lastCheck < CHECK_INTERVAL_MS
    THEN cache.latestVersion
    ELSE Undefined

CachedVersion(forceCheck) ==
    IF ~forceCheck /\ cache.kind = "valid" /\ now - cache.lastCheck < CHECK_INTERVAL_MS
    THEN cache.latestVersion
    ELSE Undefined

\* lines 78-82: the value returned for the resolved latestVersion
ResultFor(latestVersion, currentVersion) ==
    IF ~FalsyVersion(latestVersion) /\ isNewer(latestVersion, currentVersion)
    THEN [current |-> currentVersion, latest |-> latestVersion]
    ELSE Null

\* a write for whatever the fetch resolved to
ShouldWriteAlways(latestVersion) == TRUE

\* line 65: if (latestVersion)
ShouldWrite(latestVersion) == ~FalsyVersion(latestVersion)

\* no call has written the cache yet
NoWrite == [at |-> -1, latestVersion |-> Undefined]

\* an error of the fetch leaving the function
Rethrown == [settled |-> "rejected", result |-> Null]

\* lines 83-85: catch { return null }
Caught == [settled |-> "resolved", result |-> Null]

\* one call of checkForUpdate(currentVersion, packageName, forceCheck), the
\* registry answering `fetch` and the file system `writeOk`
CheckForUpdate(currentVersion, forceCheck, fetch, writeOk) ==
    LET cached    == CachedVersion(forceCheck)
        needFetch == FalsyVersion(cached)
        threw     == needFetch /\ fetch.kind # "ok"
        latestVersion == IF needFetch THEN fetch.version ELSE cached
        writes    == needFetch /\ ~threw /\ ShouldWrite(latestVersion)
        outcome   == IF threw THEN Caught
                     ELSE [settled |-> "resolved",
                           result |-> ResultFor(latestVersion, currentVersion)]
    IN /\ cache' = IF writes /\ writeOk THEN ValidCache(now, latestVersion) ELSE cache
       /\ lastWrite' = IF writes /\ writeOk
                       THEN [at |-> now, latestVersion |-> latestVersion]
                       ELSE lastWrite
       /\ last' = [called |-> TRUE,
                   current |-> currentVersion,
                   forceCheck |-> forceCheck,
                   cacheBefore |-> cache,
                   writeBefore |-> lastWrite,
                   at |-> now,
                   readCache |-> ~forceCheck,
                   fetched |-> needFetch,
                   fetch |-> IF needFetch THEN fetch ELSE NoFetch,
                   wrote |-> writes,
                   writeOk |-> writes /\ writeOk,
                   settled |-> outcome.settled,
                   result |-> outcome.result]
       /\ now' = now
       /\ UNCHANGED <<createVars, cliVars, deleteVars, configVars, schemaVars>>

NotCalled == [called |-> FALSE, current |-> Undefined, forceCheck |-> FALSE,
              cacheBefore |-> NoCache, writeBefore |-> NoWrite, at |-> 0,
              readCache |-> FALSE,
              fetched |-> FALSE, fetch |-> NoFetch, wrote |-> FALSE,
              writeOk |-> FALSE, settled |-> "none", result |-> Null]

\* time passes
Tick ==
    /\ now < MaxTicks * TickMs
    /\ now' = now + TickMs
    /\ UNCHANGED <<cache, last, lastWrite, createVars, cliVars, deleteVars, configVars, schemaVars>>

\* a call from the CLI start-up, with or without forceCheck
Check ==
    \E c \in MajorVersions, f \in BOOLEAN, r \in Fetches(MajorVersions), w \in BOOLEAN :
        CheckForUpdate(c, f, r, w)

\* a forced call, over all versions
ForcedCheck ==
    /\ ~last.called
    /\ \E c \in Versions, r \in Fetches(Versions), w \in BOOLEAN :
          CheckForUpdate(c, TRUE, r, w)

RunIdle ==
    /\ args = [name |-> None, source |-> None, branch |-> None]
    /\ config = [showRemoteBranches |-> TRUE, postCreateCmd |-> <<>>]
    /\ pc = "idle"
    /\ error = NoError
    /\ calls = <<>>
    /\ request = NoRequest
    /\ allBranches = <<>>
    /\ cmdIdx = 0
    /\ cmdResults = <<>>
    /\ stdout = <<>>
    /\ stderr = <<>>
    /\ retryOf = "fresh"

CreateIdle ==
    /\ RunIdle
    /\ worktrees = {}

UpdateInit ==
    /\ cache \in Caches(MajorVersions)
    /\ now = 0
    /\ last = NotCalled
    /\ lastWrite = NoWrite

UpdateIdle ==
    /\ cache = NoCache
    /\ now = 0
    /\ last = NotCalled
    /\ lastWrite = NoWrite

----------------------------------------------------------------------------
(* CLI entry point *)

Commands == {"", "create", "delete", "list", "settings", "--help", "--version"}

\* argv: the command and which of -n, -s, -b, --json were given
Invocations == [command : Commands, name : BOOLEAN, source : BOOLEAN,
                branch : BOOLEAN, json : BOOLEAN, isTTY : BOOLEAN]

\* the hint that goes with ERROR_NO_TTY for a command
Hint(command) ==
    CASE command = "" -> "ERROR_NO_TTY_MENU"
      [] command = "create" -> "ERROR_NO_TTY_CREATE"
      [] command = "delete" -> "ERROR_NO_TTY_DELETE"
      [] command = "settings" -> "ERROR_NO_TTY_SETTINGS"
      [] OTHER -> "none"

\* a dispatch that asks for a terminal whenever the command has an
\* interactive form
NonInteractiveNever(inv) ==
    IF inv.command \in {"--help", "--version"} THEN {TRUE} ELSE {FALSE}

\* whether the invocation is served without prompting; a create with only
\* one of -n and -s goes either way
NonInteractive(inv) ==
    CASE inv.command \in {"list", "--help", "--version"} -> {TRUE}
      [] inv.command = "create" ->
            IF inv.name /\ inv.source THEN {TRUE}
            ELSE IF inv.name \/ inv.source \/ inv.branch THEN {TRUE, FALSE}
            ELSE {FALSE}
      [] inv.command = "delete" -> IF inv.name THEN {TRUE} ELSE {FALSE}
      [] OTHER -> {FALSE}

\* what a command run without prompting may do: [exitCode, stdout, stderr]
CommandOutcomes(inv) ==
    CASE inv.command = "--help" ->
            { [exitCode |-> 0, stdout |-> "Usage:", stderr |-> {}] }
      [] inv.command = "--version" ->
            { [exitCode |-> 0, stdout |-> "Branchlet v", stderr |-> {}] }
      [] inv.command = "list" ->
            { [exitCode |-> 0, stdout |-> "json", stderr |-> {}] }
      [] OTHER ->
            { [exitCode |-> 0, stdout |-> "path", stderr |-> {}],
              [exitCode |-> 0, stdout |-> "path", stderr |-> {"Warning"}],
              [exitCode |-> 1, stdout |-> "", stderr |-> {"Error"}] }

NoTtyExit(inv) ==
    [exitCode |-> 1, stdout |-> "", stderr |-> {"ERROR_NO_TTY", Hint(inv.command)}]

NotRun == [ran |-> FALSE,
           inv |-> [command |-> "", name |-> FALSE, source |-> FALSE,
                    branch |-> FALSE, json |-> FALSE, isTTY |-> TRUE],
           ui |-> FALSE,
           out |-> [exitCode |-> 0, stdout |-> "", stderr |-> {}]]

\* one run of the tool
Main ==
    \E inv \in Invocations :
       \E direct \in NonInteractive(inv) :
          /\ IF direct
             THEN \E o \in CommandOutcomes(inv) :
                     cli' = [ran |-> TRUE, inv |-> inv, ui |-> FALSE, out |-> o]
             ELSE IF inv.isTTY
             THEN cli' = [ran |-> TRUE, inv |-> inv, ui |-> TRUE, out |-> NotRun.out]
             ELSE cli' = [ran |-> TRUE, inv |-> inv, ui |-> FALSE, out |-> NoTtyExit(inv)]
          /\ UNCHANGED <<createVars, updateVars, deleteVars, configVars, schemaVars>>

CliIdle == cli = NotRun

----------------------------------------------------------------------------
(* WorktreeConfigSchema and DEFAULT_CONFIG *)

\* the fields of the schema
ConfigFields ==
    { "worktreeCopyPatterns", "worktreeCopyIgnores", "worktreePathTemplate",
      "postCreateCmd", "terminalCommand", "deleteBranchWithWorktree",
      "showRemoteBranches" }

\* a schema whose path template has no default
FieldDefaultsWithoutTemplate ==
    [ worktreeCopyPatterns |-> <<".env*", ".vscode/**">>,
      worktreeCopyIgnores |-> <<"**/node_modules/**", "**/dist/**", "**/.git/**",
                                "**/Thumbs.db", "**/.DS_Store">>,
      postCreateCmd |-> <<>>,
      terminalCommand |-> "",
      deleteBranchWithWorktree |-> FALSE,
      showRemoteBranches |-> TRUE ]

\* the .default() of each field
FieldDefaults ==
    [ worktreeCopyPatterns |-> <<".env*", ".vscode/**">>,
      worktreeCopyIgnores |-> <<"**/node_modules/**", "**/dist/**", "**/.git/**",
                                "**/Thumbs.db", "**/.DS_Store">>,
      worktreePathTemplate |-> "$BASE_PATH.worktree",
      postCreateCmd |-> <<>>,
      terminalCommand |-> "",
      deleteBranchWithWorktree |-> FALSE,
      showRemoteBranches |-> TRUE ]

\* the fields declared without .default(): parse needs them in its input
RequiredFields == ConfigFields \ DOMAIN FieldDefaults

\* a value of the field's type that is not its default
OtherValue ==
    [ worktreeCopyPatterns |-> <<".env">>,
      worktreeCopyIgnores |-> <<>>,
      worktreePathTemplate |-> "../$BRANCH_NAME",
      postCreateCmd |-> <<"npm install">>,
      terminalCommand |-> "code .",
      deleteBranchWithWorktree |-> TRUE,
      showRemoteBranches |-> FALSE ]

\* the objects handed to parse: any fields present, each with its default
\* value or another value of its type
ConfigInputs ==
    { [f \in present |-> IF f \in changed THEN OtherValue[f] ELSE FieldDefaults[f]] :
        present \in SUBSET ConfigFields, changed \in SUBSET ConfigFields }

\* WorktreeConfigSchema.parse(input): a field that is given keeps its value,
\* a field that is absent takes its default, and an absent field without a
\* default is a ZodError
ParseThrows(input) ==
    \E f \in RequiredFields : f \notin DOMAIN input

Parse(input) ==
    [f \in { g \in ConfigFields : g \in DOMAIN input \/ g \in DOMAIN FieldDefaults } |->
        IF f \in DOMAIN input THEN input[f] ELSE FieldDefaults[f]]

\* export const DEFAULT_CONFIG = WorktreeConfigSchema.parse({})
DEFAULT_CONFIG == Parse(<<>>)

NotParsed == [pc |-> "idle", input |-> <<>>, threw |-> FALSE, output |-> <<>>]

OutsideConfig ==
    UNCHANGED <<createVars, updateVars, cliVars, deleteVars, schemaVars>>

\* the config layer parses a config file's object
ParseConfig ==
    /\ parsed.pc = "idle"
    /\ \E input \in ConfigInputs :
          parsed' = [pc |-> "parsed",
                     input |-> input,
                     threw |-> ParseThrows(input),
                     output |-> IF ParseThrows(input) THEN <<>> ELSE Parse(input)]
    /\ OutsideConfig

\* the parsed config is handed on
ConfigLoaded ==
    /\ parsed.pc = "parsed"
    /\ parsed' = NotParsed
    /\ OutsideConfig

ConfigIdle == parsed = NotParsed

----------------------------------------------------------------------------
(* scripts/generate-schema and scripts/check-schema *)

\* a JSON object is the sequence of its members in insertion order; the
\* value of a member is the text JSON.stringify gives it
Member(k, v) == [key |-> k, value |-> v]

\* the members every z.toJSONSchema(WorktreeConfigSchema) result starts with
SchemaHead(properties) ==
    << Member("$schema", "\"https://json-schema.org/draft/2020-12/schema\""),
       Member("type", "\"object\""),
       Member("properties", properties) >>

\* the members it may go on with, as the schema source and zod decide
SchemaTails ==
    LET required == Member("required", "[7 names]")
        additionalProperties == Member("additionalProperties", "false")
        description == Member("description",
                              "\"Configuration for Git worktree management tool\"")
    IN { <<>>, <<required>>, <<additionalProperties>>,
         <<required, additionalProperties>>,
         <<description>>, <<required, description>>,
         <<additionalProperties, description>>,
         <<required, additionalProperties, description>>,
         <<description, required, additionalProperties>> }

\* the results z.toJSONSchema(WorktreeConfigSchema) may have, for the schema
\* as it is and with a field added
JsonSchemas ==
    { SchemaHead(properties) \o tail :
        properties \in {"{7 fields}", "{8 fields}"}, tail \in SchemaTails }

\* delete obj[key]
DeleteKey(obj, key) == SelectSeq(obj, LAMBDA m : m.key # key)

\* the members of JSON.stringify(obj, null, 2) from the i-th on: one line
\* each, indented by two spaces, a comma after all but the last
RECURSIVE MemberLines(_, _)
MemberLines(obj, i) ==
    IF i > Len(obj) THEN <<>>
    ELSE <<"  ", obj[i].key, ": ", obj[i].value>>
           \o (IF i < Len(obj) THEN <<",">> ELSE <<>>)
           \o <<"\n">>
           \o MemberLines(obj, i + 1)

\* JSON.stringify(obj, null, 2), a text being the sequence of its pieces
Stringify(obj) ==
    IF obj = <<>> THEN <<"{}">>
    ELSE <<"{", "\n">> \o MemberLines(obj, 1) \o <<"}">>

\* generate-schema lines 6-15: the content it writes
GenerateText(js) ==
    Stringify(DeleteKey(DeleteKey(js, "required"), "additionalProperties")) \o <<"\n">>

\* a check that forgets to delete the required key
CheckTextKeepingRequired(js) ==
    Stringify(DeleteKey(js, "additionalProperties")) \o <<"\n">>

\* check-schema lines 6-9: `generated`
CheckText(js) ==
    Stringify(DeleteKey(DeleteKey(js, "required"), "additionalProperties")) \o <<"\n">>

\* no schema.json
MissingFile == <<"<ENOENT>">>

\* the contents schema.json may have been committed with: generated from
\* some state of the schema, the same without the final newline, the bare
\* toJSONSchema result, or nothing
SchemaFiles ==
    { GenerateText(js) : js \in JsonSchemas }
      \cup { Stringify(DeleteKey(DeleteKey(js, "required"), "additionalProperties")) :
               js \in JsonSchemas }
      \cup { Stringify(js) \o <<"\n">> : js \in JsonSchemas }
      \cup { MissingFile }

NoText == <<>>

NoScript == [name |-> "none", prev |-> "none", exitCode |-> 0, stdout |-> "",
             stderr |-> "", committed |-> NoText, wrote |-> NoText,
             prevWrote |-> NoText]

OutsideSchema ==
    UNCHANGED <<createVars, updateVars, cliVars, deleteVars, configVars>>

\* bun run generate:schema
GenerateSchema ==
    /\ schemaFile' = GenerateText(jsonSchema)
    /\ script' = [name |-> "generate-schema", prev |-> script.name,
                  exitCode |-> 0, stdout |-> "Written: schema.json",
                  stderr |-> "", committed |-> NoText,
                  wrote |-> GenerateText(jsonSchema), prevWrote |-> script.wrote]
    /\ UNCHANGED jsonSchema
    /\ OutsideSchema

\* bun run check:schema; readFile of a missing file is an uncaught error,
\* which ends the process with code 1 as well
CheckSchema ==
    /\ LET generated == CheckText(jsonSchema)
           committed == schemaFile
       IN script' = [name |-> "check-schema", prev |-> script.name,
                     exitCode |-> IF generated # committed THEN 1 ELSE 0,
                     stdout |-> IF generated # committed THEN ""
                                ELSE "schema.json is up to date.",
                     stderr |-> IF committed = MissingFile THEN "ENOENT"
                                ELSE IF generated # committed
                                THEN "schema.json is out of sync. Run: bun run generate:schema"
                                ELSE "",
                     committed |-> committed,
                     wrote |-> NoText, prevWrote |-> script.wrote]
    /\ UNCHANGED <<jsonSchema, schemaFile>>
    /\ OutsideSchema

\* the schema source is edited: toJSONSchema has another result from now on
EditSchema ==
    /\ \E js \in JsonSchemas \ {jsonSchema} : jsonSchema' = js
    /\ script' = NoScript
    /\ UNCHANGED schemaFile
    /\ OutsideSchema

\* schema.json is edited, reverted or removed by hand
EditSchemaFile ==
    /\ \E f \in SchemaFiles \ {schemaFile} : schemaFile' = f
    /\ script' = NoScript
    /\ UNCHANGED jsonSchema
    /\ OutsideSchema

SchemaIdle ==
    /\ jsonSchema = SchemaHead("{7 fields}")
    /\ schemaFile = MissingFile
    /\ script = NoScript

----------------------------------------------------------------------------
(* Specifications *)

\* runCreate against a repository
Init ==
    /\ CreateIdle
    /\ branches = { Local(MainBranch), Remote(OrigFeat) }
    /\ UpdateIdle
    /\ CliIdle
    /\ DeleteIdle
    /\ ConfigIdle
    /\ SchemaIdle

Next ==
    \/ Invoke
    \/ Retry
    \/ GetRepositoryInfo
    \/ ResolveAndCall
    \/ GitCreating
    \/ FileCopying
    \/ PostCreateRunning
    \/ PrintPath
    \/ Exit
    \/ CreateBranchElsewhere

Spec == Init /\ [][Next]_vars

\* checkForUpdate over time, from any cache file
InitUpdate ==
    /\ CreateIdle
    /\ branches = {}
    /\ UpdateInit
    /\ CliIdle
    /\ DeleteIdle
    /\ ConfigIdle
    /\ SchemaIdle

NextUpdate ==
    \/ Check
    \/ Tick

SpecUpdate == InitUpdate /\ [][NextUpdate]_vars

\* one forced checkForUpdate, over all versions
NextForced ==
    \/ ForcedCheck

SpecForced == InitUpdate /\ [][NextForced]_vars

\* runs of the tool from the command line
InitCli ==
    /\ CreateIdle
    /\ branches = {}
    /\ UpdateIdle
    /\ CliIdle
    /\ DeleteIdle
    /\ ConfigIdle
    /\ SchemaIdle

NextCli ==
    \/ Main

SpecCli == InitCli /\ [][NextCli]_vars

\* deletions of worktrees, from any repository
InitDelete ==
    /\ RunIdle
    /\ \E ws \in Repositories :
          /\ gitWorktrees = ws \cup {Worktree(MainPath, MainBranch)}
          /\ worktrees = { w.path : w \in ws }
          /\ branches = { Local(w.branch) : w \in ws }
                           \cup { Local(MainBranch), Remote(OrigFeat) }
    /\ del = NoDelete
    /\ UpdateIdle
    /\ CliIdle
    /\ ConfigIdle
    /\ SchemaIdle

NextDelete ==
    \/ DeleteWorktree
    \/ RemoveWorktree
    \/ DeleteBranch
    \/ DeleteReturn

SpecDelete == InitDelete /\ [][NextDelete]_vars

\* the config layer parsing config objects
InitConfig ==
    /\ CreateIdle
    /\ branches = {}
    /\ UpdateIdle
    /\ CliIdle
    /\ DeleteIdle
    /\ ConfigIdle
    /\ SchemaIdle

NextConfig ==
    \/ ParseConfig
    \/ ConfigLoaded

SpecConfig == InitConfig /\ [][NextConfig]_vars

\* the schema scripts, from any schema and any committed schema.json
InitSchema ==
    /\ CreateIdle
    /\ branches = {}
    /\ UpdateIdle
    /\ CliIdle
    /\ DeleteIdle
    /\ ConfigIdle
    /\ jsonSchema \in JsonSchemas
    /\ schemaFile \in SchemaFiles
    /\ script = NoScript

NextSchema ==
    \/ GenerateSchema
    \/ CheckSchema
    \/ EditSchema
    \/ EditSchemaFile

SpecSchema == InitSchema /\ [][NextSchema]_vars

----------------------------------------------------------------------------
(* Claims about runCreate *)

Called(c) == \E i \in 1..Len(calls) : calls[i] = c

InService == pc \in {"gitCreating", "fileCopying", "postCreate"}

Listed(source) == \E i \in 1..Len(allBranches) : allBranches[i].name = source

ReadOnlyCalls ==
    \A i \in 1..Len(calls) : calls[i] \in {"getRepositoryInfo", "listBranches"}

\* what C1 lists as grounds for rejection, as far as the run has got
C1_Rejectable ==
    \/ Falsy(args.name)
    \/ Falsy(args.source)
    \/ validateDirectoryName(args.name) # NoError
    \/ (Called("listBranches") /\ ~Listed(args.source))
    \/ (args.branch # None /\ validateBranchName(args.branch) # NoError)

\* C1: a run whose name or source is missing, whose name validateDirectoryName
\* rejects, whose source is not among the listed branches or whose explicit
\* branch validateBranchName rejects never invokes createWorktree: it makes
\* read-only calls only, prints nothing, and ends by throwing.
C1_RejectedBeforeMutation ==
    (pc # "idle" /\ C1_Rejectable) =>
        /\ ReadOnlyCalls
        /\ ~InService
        /\ request = NoRequest
        /\ stdout = <<>>
        /\ (pc = "done" => error # NoError)

C1_Witness ==
    /\ pc = "done"
    /\ error = "Invalid branch name"
    /\ calls = <<"getRepositoryInfo", "listBranches">>
    /\ args.branch = <<"b", " ", "b">>

\* C2: in the request handed to createWorktree, newBranch is: the explicit
\* branch when one is given; else, for a remote source "<remote>/<rest>",
\* <rest> (only the prefix up to the first '/' removed); else the source.
C2_NewBranchDefault ==
    Called("createWorktree") =>
        /\ args.branch # None => request.newBranch = args.branch
        /\ (args.branch = None /\ ~request.isRemoteSource) =>
              request.newBranch = args.source
        /\ (args.branch = None /\ request.isRemoteSource) =>
              \A k \in 2..Len(args.source) :
                 (args.source[k] = "/" /\ \A j \in 1..(k - 1) : args.source[j] # "/")
                    => request.newBranch = SubSeq(args.source, k + 1, Len(args.source))

C2_Witness ==
    /\ Called("createWorktree")
    /\ args.branch = None
    /\ args.source = OrigFeat
    /\ request.isRemoteSource
    /\ request.newBranch = FeatX

\* C3: whenever createWorktree is invoked, the request's newBranch is a
\* non-empty string, whatever args.branch was (absent, empty, non-empty).
C3_NewBranchNonEmpty ==
    Called("createWorktree") => (request.newBranch # None /\ request.newBranch # <<>>)

\* C4 as stated: a run that repeats one that failed on a missing source, and
\* now finds the source listed, reaches createWorktree.
C4_RetryReachesCreate ==
    (retryOf = "Source branch does not exist" /\ Called("listBranches")
       /\ Listed(args.source)) => Called("createWorktree")

\* C4, amended: a run whose source is not listed throws "does not exist" after
\* read-only calls only; the same call repeated once the source is listed
\* passes the source check, and reaches createWorktree unless its explicit
\* branch is rejected by validateBranchName ("Invalid branch name").
C4_NotFoundThenRetry ==
    /\ (Called("listBranches") /\ ~Listed(args.source)) =>
          /\ pc = "done"
          /\ error = "Source branch does not exist"
          /\ calls = <<"getRepositoryInfo", "listBranches">>
          /\ request = NoRequest
    /\ (retryOf = "Source branch does not exist" /\ Called("listBranches")
          /\ Listed(args.source)) =>
          /\ error # "Source branch does not exist"
          /\ IF ~Falsy(args.branch) /\ validateBranchName(args.branch) # NoError
             THEN error = "Invalid branch name" /\ ~Called("createWorktree")
             ELSE Called("createWorktree")

C4_Witness ==
    /\ retryOf = "Source branch does not exist"
    /\ Called("createWorktree")
    /\ args.source = FeatX

FailedCmd(i) == i \in 1..Len(cmdResults) /\ ~cmdResults[i].ok

\* C5: once Git creation has succeeded, a failing post-create command leaves
\* the create successful: no error, the worktree exists, a warning with the
\* command's text is on stderr, and the finished run has printed the path.
C5_PostCreateFailureKeepsWorktree ==
    \A i \in 1..Len(cmdResults) : ~cmdResults[i].ok =>
        /\ error = NoError
        /\ getWorktreePath(args.name) \in worktrees
        /\ \E w \in 1..Len(stderr) :
              stderr[w] = <<"Warning: post-create command failed:", cmdResults[i].command>>
        /\ cmdResults[i].command = config.postCreateCmd[i]
        /\ (pc = "done" => stdout = <<getWorktreePath(args.name)>>)

C5_Witness ==
    /\ pc = "done"
    /\ FailedCmd(1)
    /\ cmdResults[1].command = "this-command-does-not-exist-xyz"
    /\ Len(cmdResults) = 2
    /\ stdout = <<getWorktreePath(args.name)>>

\* C6: the path is printed at most once, and only when createWorktree has
\* returned without throwing; a run that threw has printed nothing.
C6_PrintsOnlyAfterCreate ==
    /\ Len(stdout) <= 1
    /\ stdout # <<>> =>
          /\ pc = "done"
          /\ error = NoError
          /\ Called("createWorktree")
          /\ cmdIdx > Len(config.postCreateCmd)
          /\ stdout = <<getWorktreePath(args.name)>>
          /\ getWorktreePath(args.name) \in worktrees
    /\ error # NoError => stdout = <<>>
    /\ (pc = "done" /\ error = NoError) => Len(stdout) = 1

C6_Witness ==
    /\ pc = "done"
    /\ error = "Git command failed"
    /\ Called("createWorktree")
    /\ stdout = <<>>

----------------------------------------------------------------------------
(* Claims about checkForUpdate *)

\* the first three components, a missing one taken as 0
Triple(v) == [i \in 1..3 |-> IF i <= Len(v) THEN v[i] ELSE 0]

LexGreater(a, b) ==
    \/ a[1] > b[1]
    \/ a[1] = b[1] /\ a[2] > b[2]
    \/ a[1] = b[1] /\ a[2] = b[2] /\ a[3] > b[3]

\* C7: a forced check to which the registry answers version L returns
\* {current, latest: L} exactly when L is greater than current in the numeric
\* lexicographic order of the first three components (missing ones 0), and
\* null otherwise.
C7_UpdateIffNewer ==
    (last.called /\ last.forceCheck /\ last.fetch.kind = "ok"
       /\ last.fetch.version \in Versions) =>
        last.result = IF LexGreater(Triple(last.fetch.version), Triple(last.current))
                      THEN [current |-> last.current, latest |-> last.fetch.version]
                      ELSE Null

C7_Witness ==
    /\ last.called
    /\ last.forceCheck
    /\ last.current = <<1, 0>>
    /\ last.fetch = [kind |-> "ok", version |-> <<1, 1>>]
    /\ last.result = [current |-> <<1, 0>>, latest |-> <<1, 1>>]

\* C8: every call resolves, whatever the cache, the fetch and the cache write
\* did; it resolves to null when the fetch was needed and failed.
C8_NeverRejects ==
    last.called =>
        /\ last.settled = "resolved"
        /\ (last.fetched /\ last.fetch.kind # "ok") => last.result = Null

C8_Witness ==
    /\ last.called
    /\ last.cacheBefore.kind = "valid"
    /\ last.at - last.cacheBefore.lastCheck >= CHECK_INTERVAL_MS
    /\ last.fetched
    /\ last.fetch.kind = "abort"
    /\ last.settled = "resolved"
    /\ last.result = Null

FreshBefore ==
    /\ last.cacheBefore.kind = "valid"
    /\ last.at - last.cacheBefore.lastCheck < CHECK_INTERVAL_MS
    /\ ~FalsyVersion(last.cacheBefore.latestVersion)

\* C9: a forced call does not read the cache and always fetches, a fresh
\* cache entry notwithstanding; what it returns is null or names the fetched
\* version, and is the update when the fetched version is newer.
C9_ForceBypassesCache ==
    (last.called /\ last.forceCheck) =>
        /\ ~last.readCache
        /\ last.fetched
        /\ last.fetch.kind # "none"
        /\ \/ last.result = Null
           \/ last.result = [current |-> last.current, latest |-> last.fetch.version]
        /\ (last.fetch.kind = "ok" /\ ~FalsyVersion(last.fetch.version)
              /\ LexGreater(Triple(last.fetch.version), Triple(last.current)))
             => last.result # Null
        /\ (last.fetch.kind = "ok" /\ ~FalsyVersion(last.fetch.version)
              /\ ~LexGreater(Triple(last.fetch.version), Triple(last.current)))
             => last.result = Null

C9_Witness ==
    /\ last.called
    /\ last.forceCheck
    /\ FreshBefore
    /\ last.cacheBefore.latestVersion = <<1, 0, 0>>
    /\ last.current = <<1, 0, 0>>
    /\ last.fetched
    /\ last.fetch = [kind |-> "ok", version |-> <<0, 0, 0>>]
    /\ last.result = Null

----------------------------------------------------------------------------
(* Claims about the CLI without a terminal *)

NeedsInteraction(inv) ==
    \/ inv.command \in {"", "settings"}
    \/ inv.command = "create" /\ ~inv.name /\ ~inv.source /\ ~inv.branch
    \/ inv.command = "delete" /\ ~inv.name

ServedDirectly(inv) ==
    \/ inv.command \in {"list", "--help", "--version"}
    \/ inv.command = "create" /\ inv.name /\ inv.source
    \/ inv.command = "delete" /\ inv.name

\* C10: without a TTY, an invocation that needs interaction (bare, create or
\* delete without flags, settings) exits 1 with ERROR_NO_TTY and its hint on
\* stderr; list (JSON, exit 0), create -n -s, delete -n, --help and --version
\* never write ERROR_NO_TTY.
C10_NoTtyErrors ==
    (cli.ran /\ ~cli.inv.isTTY) =>
        /\ NeedsInteraction(cli.inv) =>
              /\ cli.out.exitCode = 1
              /\ cli.out.stderr = {"ERROR_NO_TTY", Hint(cli.inv.command)}
              /\ Hint(cli.inv.command) # "none"
              /\ ~cli.ui
        /\ ServedDirectly(cli.inv) =>
              /\ "ERROR_NO_TTY" \notin cli.out.stderr
              /\ ~cli.ui
        /\ cli.inv.command = "list" =>
              cli.out.exitCode = 0 /\ cli.out.stdout = "json"
        /\ cli.inv.command \in {"--help", "--version"} => cli.out.exitCode = 0

C10_Witness ==
    /\ cli.ran
    /\ ~cli.inv.isTTY
    /\ cli.inv.command = "create"
    /\ ~cli.inv.name /\ ~cli.inv.source /\ ~cli.inv.branch
    /\ cli.out.exitCode = 1
    /\ cli.out.stderr = {"ERROR_NO_TTY", "ERROR_NO_TTY_CREATE"}

----------------------------------------------------------------------------
(* Claims about deleteWorktree *)

\* the worktree of the call is in no record of listWorktrees()
AbsentFromList ==
    \A i \in 1..Len(listWorktrees) : listWorktrees[i].path # del.path

\* C11: once deleteWorktree has removed the worktree, listWorktrees() no
\* longer holds its path; deleteBranch is called only when
\* deleteBranchWithWorktree is set and only after a removeWorktree that
\* succeeded; and when that branch deletion fails the call still ends
\* without an error, with a warning, the worktree absent and the branch
\* still there.
C11_DeleteThenBranchWarning ==
    /\ del.removed => AbsentFromList
    /\ \A i \in 1..Len(del.calls) :
          del.calls[i] = "deleteBranch" =>
             /\ del.deleteBranchWithWorktree
             /\ del.removed
             /\ \E j \in 1..(i - 1) : del.calls[j] = "removeWorktree"
    /\ (del.pc = "done" /\ del.branchDeletion = "failed") =>
          /\ del.error = NoError
          /\ del.warnings # <<>>
          /\ AbsentFromList
          /\ Local(del.worktree.branch) \in branches

\* a deletion whose branch deletion failed, another linked worktree staying
C11_Witness ==
    /\ del.pc = "done"
    /\ del.deleteBranchWithWorktree
    /\ del.removed
    /\ del.branchDeletion = "failed"
    /\ del.path \in LinkedPaths
    /\ \E w \in gitWorktrees : w.path \in LinkedPaths

----------------------------------------------------------------------------
(* Claims about the configuration schema *)

\* C12: the schema has exactly 7 fields and none is required: parse accepts
\* an object with any of them missing and returns all 7, and for the empty
\* object (DEFAULT_CONFIG) the result is worktreeCopyPatterns
\* [".env*", ".vscode/**"], worktreeCopyIgnores ["**/node_modules/**",
\* "**/dist/**", "**/.git/**", "**/Thumbs.db", "**/.DS_Store"],
\* worktreePathTemplate "$BASE_PATH.worktree", postCreateCmd [],
\* terminalCommand "", deleteBranchWithWorktree false, showRemoteBranches true.
C12_SevenFieldsAllDefaulted ==
    /\ Cardinality(ConfigFields) = 7
    /\ RequiredFields = {}
    /\ parsed.pc = "parsed" =>
          /\ ~parsed.threw
          /\ DOMAIN parsed.output = ConfigFields
          /\ \A f \in DOMAIN parsed.input : parsed.output[f] = parsed.input[f]
          /\ DOMAIN parsed.input = {} =>
                /\ parsed.output = DEFAULT_CONFIG
                /\ parsed.output.worktreeCopyPatterns = <<".env*", ".vscode/**">>
                /\ parsed.output.worktreeCopyIgnores =
                      <<"**/node_modules/**", "**/dist/**", "**/.git/**",
                        "**/Thumbs.db", "**/.DS_Store">>
                /\ parsed.output.worktreePathTemplate = "$BASE_PATH.worktree"
                /\ parsed.output.postCreateCmd = <<>>
                /\ parsed.output.terminalCommand = ""
                /\ parsed.output.deleteBranchWithWorktree = FALSE
                /\ parsed.output.showRemoteBranches = TRUE

\* the empty object has been parsed
C12_Witness ==
    /\ parsed.pc = "parsed"
    /\ DOMAIN parsed.input = {}
    /\ ~parsed.threw
    /\ DOMAIN parsed.output = ConfigFields

----------------------------------------------------------------------------
(* Claims about the schema scripts *)

\* the text is the 2-space indented object without the two deleted keys,
\* followed by exactly one newline
DescribedText(t, js) ==
    /\ Len(t) >= 2
    /\ t[Len(t)] = "\n"
    /\ t[Len(t) - 1] \in {"}", "{}"}
    /\ \A i \in 1..Len(t) : t[i] \notin {"required", "additionalProperties"}
    /\ \A j \in 1..Len(js) :
          js[j].key \notin {"required", "additionalProperties"} =>
             \E i \in 1..(Len(t) - 3) :
                /\ t[i] = "  "
                /\ t[i + 1] = js[j].key
                /\ t[i + 2] = ": "
                /\ t[i + 3] = js[j].value

\* C13: generate-schema and check-schema compute the same text, the JSON
\* Schema without its required and additionalProperties keys, indented by
\* two spaces, with one trailing newline; a check-schema run right after a
\* generate-schema run reports up to date; a second generate-schema run
\* writes what the first wrote; and check-schema exits with code 1 exactly
\* when schema.json differs from that text.
C13_GenerateAndCheckAgree ==
    /\ GenerateText(jsonSchema) = CheckText(jsonSchema)
    /\ DescribedText(GenerateText(jsonSchema), jsonSchema)
    /\ (script.name = "check-schema" /\ script.prev = "generate-schema") =>
          /\ script.exitCode = 0
          /\ script.stdout = "schema.json is up to date."
    /\ (script.name = "generate-schema" /\ script.prev = "generate-schema") =>
          /\ script.wrote = script.prevWrote
          /\ schemaFile = script.wrote
    /\ script.name = "check-schema" =>
          /\ script.exitCode \in {0, 1}
          /\ script.exitCode = 1 <=> script.committed # GenerateText(jsonSchema)

\* check-schema right after generate-schema, for a schema whose JSON Schema
\* came with both keys
C13_Witness ==
    /\ script.name = "check-schema"
    /\ script.prev = "generate-schema"
    /\ script.exitCode = 0
    /\ \E j \in 1..Len(jsonSchema) : jsonSchema[j].key = "required"
    /\ \E j \in 1..Len(jsonSchema) : jsonSchema[j].key = "additionalProperties"
    /\ script.committed = script.prevWrote

----------------------------------------------------------------------------
(* Claims about the update cache over time *)

\* the time from the latest cache write to the last call
SinceWrite == last.at - last.writeBefore.at

\* a call without forceCheck that came after a call that fetched and wrote
AfterWrite ==
    /\ last.called
    /\ ~last.forceCheck
    /\ last.writeBefore # NoWrite
    /\ SinceWrite >= 0

Expected(latest, current) ==
    IF LexGreater(Triple(latest), Triple(current))
    THEN [current |-> current, latest |-> latest]
    ELSE Null

\* no fetch, no write, the result made from the version that was written
ServedFromCache ==
    /\ ~last.fetched
    /\ ~last.wrote
    /\ cache = last.cacheBefore
    /\ cache = ValidCache(last.writeBefore.at, last.writeBefore.latestVersion)
    /\ last.result = Expected(last.writeBefore.latestVersion, last.current)

\* C14 as stated: after a call at t that fetched and wrote the cache, a call
\* without forceCheck at t' with 0 <= t' - t < 24h neither fetches nor writes
\* and answers from the cached version, and one with t' - t >= 24h fetches
\* and rewrites the cache with lastCheck = t'.
C14_FreshServedStaleRewritten ==
    AfterWrite =>
        IF SinceWrite < CHECK_INTERVAL_MS
        THEN ServedFromCache
        ELSE /\ last.fetched
             /\ cache = ValidCache(last.at, last.fetch.version)

\* C14 amended: ... and one with t' - t >= 24h fetches, and rewrites the
\* cache with lastCheck = t' when the fetch gave a non-empty version and the
\* write went through; otherwise the cache stays as it was.
C14_FreshServedStaleRefetched ==
    AfterWrite =>
        IF SinceWrite < CHECK_INTERVAL_MS
        THEN ServedFromCache
        ELSE /\ last.fetched
             /\ IF last.fetch.kind = "ok" /\ ~FalsyVersion(last.fetch.version)
                   /\ last.writeOk
                THEN cache = ValidCache(last.at, last.fetch.version)
                ELSE cache = last.cacheBefore

\* a call exactly 24h after the write, which fetched and rewrote the cache
C14_Witness ==
    /\ AfterWrite
    /\ SinceWrite = CHECK_INTERVAL_MS
    /\ last.fetched
    /\ last.writeOk
    /\ cache = ValidCache(last.at, last.fetch.version)
    /\ cache # last.cacheBefore

----------------------------------------------------------------------------
(* Claims about what a failed fetch leaves behind *)

\* the fetch of the last call failed or gave no version
FetchGaveNothing ==
    /\ last.called
    /\ last.fetched
    /\ last.fetch.kind # "ok" \/ FalsyVersion(last.fetch.version)

\* the fetch of the last call gave a non-empty version
FetchGaveVersion ==
    /\ last.called
    /\ last.fetched
    /\ last.fetch.kind = "ok"
    /\ ~FalsyVersion(last.fetch.version)

\* C15: when the fetch fails or yields no version the cache file stays as it
\* was and the call returns null, a stale cache entry with a newer version
\* notwithstanding; the cache is written only after a fetch that gave a
\* non-empty version; and whether that write succeeds or fails, the call
\* returns the same result.
C15_FailedFetchLeavesCache ==
    /\ FetchGaveNothing =>
          /\ ~last.wrote
          /\ cache = last.cacheBefore
          /\ last.settled = "resolved"
          /\ last.result = Null
    /\ (last.called /\ (last.wrote \/ cache # last.cacheBefore)) =>
          /\ FetchGaveVersion
          /\ last.wrote
    /\ (last.called /\ cache # last.cacheBefore) =>
          cache = ValidCache(last.at, last.fetch.version)
    /\ (last.called /\ last.wrote) =>
          /\ last.result = Expected(last.fetch.version, last.current)
          /\ ~last.writeOk => cache = last.cacheBefore

\* a failed fetch over a stale cache entry that named a newer version
C15_Witness ==
    /\ FetchGaveNothing
    /\ ~last.forceCheck
    /\ last.cacheBefore.kind = "valid"
    /\ last.at - last.cacheBefore.lastCheck >= CHECK_INTERVAL_MS
    /\ ~FalsyVersion(last.cacheBefore.latestVersion)
    /\ LexGreater(Triple(last.cacheBefore.latestVersion), Triple(last.current))
    /\ last.result = Null
    /\ cache = last.cacheBefore

====
